---------------------------- MODULE Spec2Model ----------------------------
(***************************************************************************)
(* A model of the ffxiv_reader chat-log decoder (src/src/lib.rs):          *)
(*   RawEntry::as_parts       record framing                               *)
(*   RawEntryParts::as_entry  header interpretation, sender resolution     *)
(*   NamePart / AutoTranslatePart   the two embedded sub-structures        *)
(*   MessageParser::parse     the message scanner (one action per loop     *)
(*                            iteration)                                   *)
(* Byte buffers are sequences of 0..255; a Rust slice s[a..b] is 0-based   *)
(* and half open, and panics when a > b or b > len.  A panic is an outcome *)
(* of its own (tag "Panic"): it unwinds through every caller.  A Rust      *)
(* String is modelled as the sequence of code points its UTF-8 encodes.    *)
(***************************************************************************)
EXTENDS Integers, Sequences, FiniteSets, TLC

(***************************************************************************)
(* Byte values and offsets the source names as literals.                   *)
(***************************************************************************)
\* 0x3a, the delimiter RawEntry::as_parts scans for
COLON == 58
\* 0x02, first marker byte of both sub-structures
STX == 2
\* 0x27, second marker byte of a Name sub-structure
NAME_MARKER == 39
\* 0x2e, second marker byte of an Auto-Translate sub-structure
AT_MARKER == 46
\* 0x03, the byte NamePart::determine_length scans for
ETX == 3
\* header length checked by get_header
HEADER_LEN == 8
\* offset at which the sender scan starts
SENDER_START == 9
\* minimum buffer length NamePart::verify_data accepts
NAME_MIN_LEN == 22
\* minimum buffer length AutoTranslatePart::verify_data accepts
AT_MIN_LEN == 6
\* offset of the real name inside a Name sub-structure
REAL_NAME_START == 9
\* width of usize on the 64-bit targets the crate is built for
USIZE_BITS == 64
\* U+FFFD, what String::from_utf8_lossy puts for an ill-formed sequence
REPLACEMENT == 65533

(***************************************************************************)
(* Outcomes.                                                               *)
(***************************************************************************)
None == [tag |-> "None"]
Some(v) == [tag |-> "Some", val |-> v]
Panic == [tag |-> "Panic"]
Err == [tag |-> "Err"]
Ok(v) == [tag |-> "Ok", val |-> v]

(***************************************************************************)
(* Slices and iterator searches.                                           *)
(***************************************************************************)
\* s[a..b], for a <= b <= Len(s)
Slice(s, a, b) == SubSeq(s, a + 1, b)

\* s[a..], for a <= Len(s)
SliceFrom(s, a) == SubSeq(s, a + 1, Len(s))

MinOf(S) == CHOOSE x \in S : \A y \in S : x <= y

\* s.iter().position(|b| b == &byte)
position(s, byte) ==
  LET hits == {k \in 1..Len(s) : s[k] = byte}
  IN  IF hits = {} THEN None ELSE Some(MinOf(hits) - 1)

\* s.windows(2).position(|w| w == &[first, second])
windows2_position(s, first, second) ==
  LET hits == {k \in 1..(Len(s) - 1) : s[k] = first /\ s[k + 1] = second}
  IN  IF hits = {} THEN None ELSE Some(MinOf(hits) - 1)

(***************************************************************************)
(* UTF-8, as std decodes it.  Utf8Step reads the sequence that starts at   *)
(* the 1-based index k: ok tells whether it is well formed, n is the       *)
(* number of bytes it takes (for an ill-formed one, the maximal prefix     *)
(* that from_utf8_lossy replaces by a single U+FFFD), cp the code point.   *)
(***************************************************************************)
IsCont(s, k, lo, hi) == k <= Len(s) /\ s[k] >= lo /\ s[k] <= hi

Utf8Step(s, k) ==
  LET b0 == s[k]
      bad(n) == [ok |-> FALSE, n |-> n, cp |-> REPLACEMENT]
  IN  IF b0 < 128 THEN [ok |-> TRUE, n |-> 1, cp |-> b0]
      ELSE IF b0 >= 194 /\ b0 <= 223 THEN
        IF IsCont(s, k + 1, 128, 191)
        THEN [ok |-> TRUE, n |-> 2, cp |-> (b0 - 192) * 64 + (s[k + 1] - 128)]
        ELSE bad(1)
      ELSE IF b0 >= 224 /\ b0 <= 239 THEN
        LET lo == IF b0 = 224 THEN 160 ELSE 128
            hi == IF b0 = 237 THEN 159 ELSE 191
        IN  IF ~IsCont(s, k + 1, lo, hi) THEN bad(1)
            ELSE IF ~IsCont(s, k + 2, 128, 191) THEN bad(2)
            ELSE [ok |-> TRUE, n |-> 3,
                  cp |-> (b0 - 224) * 4096 + (s[k + 1] - 128) * 64 + (s[k + 2] - 128)]
      ELSE IF b0 >= 240 /\ b0 <= 244 THEN
        LET lo == IF b0 = 240 THEN 144 ELSE 128
            hi == IF b0 = 244 THEN 143 ELSE 191
        IN  IF ~IsCont(s, k + 1, lo, hi) THEN bad(1)
            ELSE IF ~IsCont(s, k + 2, 128, 191) THEN bad(2)
            ELSE IF ~IsCont(s, k + 3, 128, 191) THEN bad(3)
            ELSE [ok |-> TRUE, n |-> 4,
                  cp |-> (b0 - 240) * 262144 + (s[k + 1] - 128) * 4096
                         + (s[k + 2] - 128) * 64 + (s[k + 3] - 128)]
      ELSE bad(1)

RECURSIVE Utf8From(_, _)
\* the code points of s from index k on, ill-formed sequences replaced
Utf8From(s, k) ==
  IF k > Len(s) THEN <<>>
  ELSE LET st == Utf8Step(s, k) IN <<st.cp>> \o Utf8From(s, k + st.n)

RECURSIVE Utf8Valid(_, _)
Utf8Valid(s, k) ==
  IF k > Len(s) THEN TRUE
  ELSE LET st == Utf8Step(s, k) IN st.ok /\ Utf8Valid(s, k + st.n)

\* String::from_utf8_lossy(&bytes)
from_utf8_lossy(bytes) == Utf8From(bytes, 1)

\* String::from_utf8(bytes)
from_utf8(bytes) == IF Utf8Valid(bytes, 1) THEN Ok(Utf8From(bytes, 1)) ELSE Err

(***************************************************************************)
(* Integer operations.                                                     *)
(***************************************************************************)
RECURSIVE BitOr(_, _)
\* a | b
BitOr(a, b) ==
  IF a = 0 THEN b
  ELSE IF b = 0 THEN a
  ELSE (IF a % 2 = 1 \/ b % 2 = 1 THEN 1 ELSE 0) + 2 * BitOr(a \div 2, b \div 2)

\* x << n for n < USIZE_BITS; x is a byte and n a multiple of 8 below the
\* width, so no bit is shifted out
Shl(x, n) == IF x = 0 THEN 0 ELSE x * 2^n

(***************************************************************************)
(* RawEntry                                                                *)
(***************************************************************************)
\* RawEntry::get_header
get_header(bytes) ==
  IF Len(bytes) < HEADER_LEN THEN None ELSE Some(Slice(bytes, 0, HEADER_LEN))

\* as_parts with the delimiter scan started at offset 8
as_parts_from8(bytes) ==
  LET header == get_header(bytes)
  IN  IF header.tag = "None" THEN None
      ELSE LET second_colon == position(SliceFrom(bytes, HEADER_LEN), COLON)
           IN  IF second_colon.tag = "None" THEN None
               ELSE Some([header  |-> header.val,
                          sender  |-> Slice(bytes, HEADER_LEN, second_colon.val + HEADER_LEN),
                          message |-> SliceFrom(bytes, second_colon.val + HEADER_LEN + 1)])

\* RawEntry::as_parts; self.bytes[9..] panics on a record of fewer than 9 bytes
as_parts(bytes) ==
  LET header == get_header(bytes)
  IN  IF header.tag = "None" THEN None
      ELSE IF SENDER_START > Len(bytes) THEN Panic
      ELSE LET second_colon == position(SliceFrom(bytes, SENDER_START), COLON)
           IN  IF second_colon.tag = "None" THEN None
               ELSE Some([header  |-> header.val,
                          sender  |-> Slice(bytes, SENDER_START, second_colon.val + SENDER_START),
                          message |-> SliceFrom(bytes, second_colon.val + SENDER_START + 1)])


(***************************************************************************)
(* Part                                                                    *)
(***************************************************************************)
\* NamePart::from_names
from_names(real_name, display_name) ==
  [tag |-> "Name", real_name |-> real_name, display_name |-> display_name]

\* AutoTranslatePart::from_parts
from_parts(category, id) ==
  [tag |-> "AutoTranslate", category |-> category, id |-> id]

\* PlainTextPart::new
PlainTextPart_new(text) == [tag |-> "PlainText", text |-> text]

(***************************************************************************)
(* NamePart                                                                *)
(***************************************************************************)
\* <NamePart as VerifiesData>::verify_data
NamePart_verify_data(bytes) ==
  IF Len(bytes) < NAME_MIN_LEN THEN FALSE
  ELSE IF bytes[1] # STX \/ bytes[2] # NAME_MARKER THEN FALSE
  ELSE TRUE

\* determine_length that, finding no 0x03, reports the bytes up to the
\* closing marker
NamePart_determine_length_unterminated(bytes) ==
  IF 2 > Len(bytes) THEN Panic
  ELSE LET end_pos == windows2_position(SliceFrom(bytes, 2), STX, NAME_MARKER)
       IN  IF end_pos.tag = "None" THEN Ok(0)
           ELSE LET last_three == position(SliceFrom(bytes, end_pos.val + 2), ETX)
                IN  IF last_three.tag = "None" THEN Ok(2 + end_pos.val)
                    ELSE Ok(2 + end_pos.val + last_three.val)

\* <NamePart as DeterminesLength>::determine_length: Ok(n), or Panic when
\* bytes[2..] is out of range
NamePart_determine_length(bytes) ==
  IF 2 > Len(bytes) THEN Panic
  ELSE LET end_pos == windows2_position(SliceFrom(bytes, 2), STX, NAME_MARKER)
       IN  IF end_pos.tag = "None" THEN Ok(0)
           ELSE LET last_three == position(SliceFrom(bytes, end_pos.val + 2), ETX)
                IN  IF last_three.tag = "None" THEN Ok(0)
                    ELSE Ok(2 + end_pos.val + last_three.val)

\* <NamePart as Parses>::parse
NamePart_parse(bytes) ==
  IF ~NamePart_verify_data(bytes) THEN None
  ELSE
    LET real_length == bytes[3] + 2
    IN  IF real_length > Len(bytes) THEN Panic
        ELSE
          LET found == position(SliceFrom(bytes, real_length), STX)
          IN  IF found.tag = "None" THEN None
              ELSE
                LET display_end == found.val + real_length
                IN  IF REAL_NAME_START > real_length THEN Panic
                    ELSE
                      LET real_name == from_utf8(Slice(bytes, REAL_NAME_START, real_length))
                      IN  IF real_name.tag = "Err" THEN None
                          ELSE IF real_length + 1 > display_end THEN Panic
                          ELSE
                            LET display_name ==
                                  from_utf8(Slice(bytes, real_length + 1, display_end))
                            IN  IF display_name.tag = "Err" THEN None
                                ELSE Some(from_names(real_name.val, display_name.val))

(***************************************************************************)
(* AutoTranslatePart                                                       *)
(***************************************************************************)
RECURSIVE BeFold(_, _, _)
\* the for loop of byte_array_to_be from iteration i on, shift amounts
\* taken modulo the width
BeFold(bytes, i, res) ==
  IF i > Len(bytes) - 2 THEN res
  ELSE LET bits == 8 * (Len(bytes) - i - 2)
       IN  BeFold(bytes, i + 1, BitOr(res, Shl(bytes[i + 2], bits % USIZE_BITS)))

\* byte_array_to_be with the first byte left unshifted
byte_array_to_be_unshifted(bytes) ==
  IF Len(bytes) < 1 THEN {None}
  ELSE IF Len(bytes) = 1 THEN {Some(bytes[1])}
  ELSE {Some(BeFold(bytes, 0, bytes[1]))}

\* AutoTranslatePart::byte_array_to_be: the set of outcomes.  A shift by the
\* width or more (a slice of 9 bytes or more) panics in a build with
\* overflow checks and shifts by the amount modulo the width in one without.
byte_array_to_be(bytes) ==
  IF Len(bytes) < 1 THEN {None}
  ELSE IF Len(bytes) = 1 THEN {Some(bytes[1])}
  ELSE
    LET length == Len(bytes)
        first == Shl(bytes[1], (8 * (length - 1)) % USIZE_BITS)
        wrapped == Some(BeFold(bytes, 0, first))
    IN  IF 8 * (length - 1) >= USIZE_BITS THEN {Panic, wrapped} ELSE {wrapped}

\* <AutoTranslatePart as VerifiesData>::verify_data
AutoTranslatePart_verify_data(bytes) ==
  IF Len(bytes) < AT_MIN_LEN THEN FALSE
  ELSE IF bytes[1] # STX \/ bytes[2] # AT_MARKER THEN FALSE
  ELSE TRUE

\* <AutoTranslatePart as DeterminesLength>::determine_length: bytes[2]
\* panics on a buffer of fewer than 3 bytes
AutoTranslatePart_determine_length(bytes) ==
  IF Len(bytes) < 3 THEN Panic ELSE Ok(bytes[3] + 3)

\* <AutoTranslatePart as Parses>::parse: the set of outcomes
AutoTranslatePart_parse(bytes) ==
  IF ~AutoTranslatePart_verify_data(bytes) THEN {None}
  ELSE
    LET length == bytes[3]
        category == bytes[4]
    IN  IF 4 > 3 + length \/ 3 + length > Len(bytes) THEN {Panic}
        ELSE {IF id.tag = "Some" THEN Some(from_parts(category, id.val)) ELSE id :
                id \in byte_array_to_be(Slice(bytes, 4, 3 + length))}

(***************************************************************************)
(* MessageParser                                                           *)
(***************************************************************************)
\* $t::determine_length
determine_length(t, bytes) ==
  IF t = "NamePart" THEN NamePart_determine_length(bytes)
  ELSE AutoTranslatePart_determine_length(bytes)

\* $t::parse
parse(t, bytes) ==
  IF t = "NamePart" THEN {NamePart_parse(bytes)} ELSE AutoTranslatePart_parse(bytes)

\* parse_structure_macro!($t, $message): the set of outcomes, Some of the
\* pair (length, part), None or Panic
parse_structure_macro(t, message) ==
  LET length == determine_length(t, message)
  IN  IF length.tag = "Panic" THEN {Panic}
      ELSE IF length.val > Len(message) THEN {Panic}
      ELSE {IF part.tag = "Some" THEN Some([len |-> length.val, part |-> part.val]) ELSE part :
              part \in parse(t, Slice(message, 0, length.val))}

\* MessageParser::parse_structure
parse_structure(message) ==
  IF Len(message) < 2 THEN {None}
  ELSE LET structure_id == message[2]
       IN  IF structure_id = NAME_MARKER THEN parse_structure_macro("NamePart", message)
           ELSE IF structure_id = AT_MARKER
                THEN parse_structure_macro("AutoTranslatePart", message)
           ELSE {None}

\* Flush without the emptiness test
Flush_Always(ps, bytes) == Append(ps, PlainTextPart_new(from_utf8_lossy(bytes)))

\* the flush of lines 328-331 and 340-342: the accumulated literal bytes
\* become a PlainText part unless there are none
Flush(ps, bytes) ==
  IF bytes # <<>> THEN Append(ps, PlainTextPart_new(from_utf8_lossy(bytes))) ELSE ps

(***************************************************************************)
(* RawEntryParts                                                           *)
(***************************************************************************)
\* read_u32 with the byte order reversed
read_u32_be(b) == BitOr(BitOr(b[4], Shl(b[3], 8)), BitOr(Shl(b[2], 16), Shl(b[1], 24)))

\* LittleEndian::read_u32(&header[..4])
read_u32(b) == BitOr(BitOr(b[1], Shl(b[2], 8)), BitOr(Shl(b[3], 16), Shl(b[4], 24)))

\* the sender of RawEntryParts::as_entry (lines 69-79): None, Some(part), or
\* Panic when NamePart::parse panics
resolve_sender(bytes) ==
  IF bytes = <<>> THEN None
  ELSE LET part == NamePart_parse(bytes)
       IN  IF part.tag = "Some" THEN Some(part.val)
           ELSE IF part.tag = "Panic" THEN Panic
           ELSE LET name == from_utf8(bytes)
                IN  IF name.tag = "Ok" THEN Some(from_names(name.val, name.val))
                    ELSE None

(***************************************************************************)
(* Inputs.                                                                 *)
(***************************************************************************)
\* longest raw record enumerated byte by byte
MaxRawLen == 12
\* longest message enumerated byte by byte
MaxMsgLen == 6
\* longest text-only message and sender enumerated byte by byte
MaxTextLen == 3
\* longest id slice enumerated byte by byte
MaxBeLen == 3

SeqsUpTo(S, n) == UNION {[1..k -> S] : k \in 0..n}

\* ':' and 'A'
RawBytes == {COLON, 65}
\* marker, discriminator and terminator bytes, and 'h'
MsgBytes == {STX, NAME_MARKER, AT_MARKER, ETX, 104}
\* 'h', the two bytes of U+00E9, and a byte no UTF-8 sequence holds
TextBytes == {104, 195, 169, 255}
HeaderBytes == {0, 1, 127}
BeBytes == {0, 1, 42, 123}

\* a Name sub-structure: marker, length byte, six opaque bytes, real name,
\* separator, display name, closing bytes
NameBuf(l, real, sep, disp, tail) ==
  <<STX, NAME_MARKER, l>> \o <<1, 1, 1, 1, 1, 1>> \o real \o <<sep>> \o disp \o tail

NameBufs ==
  {NameBuf(l, real, sep, disp, tail) :
     l \in {0, 6, 7, 12, 17, 18, 20, 21, 255},
     real \in {<<65, 108, 105, 99, 101>>, <<65, 195, 169, 99, 101>>, <<65, 255, 105, 99, 101>>},
     sep \in {0, STX},
     disp \in {<<65, 108, 32, 67>>, <<65, 108, 195, 40>>},
     tail \in {<<STX, NAME_MARKER, 1>>, <<STX, NAME_MARKER>>, <<1, 1, 1>>}}

\* Auto-Translate sub-structures with a terminator and trailing text; the
\* first is the one of length byte 2, category 5, id byte 0x7B and "hi", the
\* last two have a length byte of 10, whose id slice takes 9 bytes
AutoTranslateMsgs ==
  {<<STX, AT_MARKER, 2, 5, 123, ETX, 104, 105>>,
   <<STX, AT_MARKER, 3, 5, 123, ETX, 104, 105>>,
   <<STX, AT_MARKER, 4, 5, 1, 0, ETX, 104, 105>>,
   <<104, STX, AT_MARKER, 3, 5, 1, 0, ETX, 104>>,
   <<STX, AT_MARKER, 10, 5, 0, 0, 0, 0, 0, 0, 0, 1, 42, ETX, STX>>,
   <<STX, AT_MARKER, 10, 5, 0, 0, 0, 0, 0, 0, 0, 1>>}

MessageInputs ==
  SeqsUpTo(MsgBytes, MaxMsgLen) \cup SeqsUpTo(TextBytes, MaxTextLen)
  \cup AutoTranslateMsgs
  \cup {pre \o nb \o <<ETX>> \o post : pre \in {<<>>, <<104>>}, nb \in NameBufs,
                                        post \in {<<105>>}}

SenderInputs ==
  SeqsUpTo(TextBytes, MaxTextLen) \cup NameBufs \cup {nb \o <<ETX>> : nb \in NameBufs}

HeaderInputs ==
  {<<b0, b1, b2, b3, b4>> \o rest :
     b0 \in HeaderBytes, b1 \in HeaderBytes, b2 \in HeaderBytes,
     b3 \in HeaderBytes, b4 \in HeaderBytes, rest \in {<<0, 0, 0>>, <<255, 1, 127>>}}

RawInputs ==
  SeqsUpTo(RawBytes, MaxRawLen)
  \cup {h \o <<b8>> \o snd \o <<COLON>> \o msg :
          h \in HeaderInputs, b8 \in {COLON}, snd \in {<<>>, <<65>>}, msg \in {<<>>, <<104>>}}

PartsInputs ==
  {[header |-> <<1, 0, 0, 0, 5, 0, 0, 0>>, sender |-> snd, message |-> msg] :
     snd \in SenderInputs, msg \in {<<>>, <<104, 105>>, <<STX, AT_MARKER>>}}

BeInputs ==
  SeqsUpTo(BeBytes, MaxBeLen)
  \cup {<<0, 0, 0, 0>> \o t : t \in [1..4 -> BeBytes]}
  \cup {<<h, 0, 0, 0, 0, 0, 0, 0>> \o <<l>> : h \in {0, 1}, l \in BeBytes}

(***************************************************************************)
(* State.                                                                  *)
(***************************************************************************)
VARIABLES
  caller,      \* the public function the run calls
  pc,          \* where the run is
  raw,         \* RawEntry.bytes
  rparts,      \* what as_parts returned
  entry_type,  \* as_entry's local
  timestamp,   \* as_entry's local
  sender,      \* as_entry's local
  entry,       \* what as_entry returned
  message,     \* MessageParser::parse's argument
  i,           \* its cursor
  buf,         \* its literal run
  parts,       \* its Vec<Part>
  iters,       \* loop iterations it has run
  be_in,       \* byte_array_to_be's argument
  be_out,      \* what byte_array_to_be returned
  panicAt      \* the function a panic came from

vars == <<caller, pc, raw, rparts, entry_type, timestamp, sender, entry,
          message, i, buf, parts, iters, be_in, be_out, panicAt>>

Unset == [tag |-> "Unset"]

InitCommon ==
  /\ entry_type = 0 /\ timestamp = 0 /\ sender = Unset /\ entry = Unset
  /\ i = 0 /\ buf = <<>> /\ parts = <<>> /\ iters = 0
  /\ be_out = Unset /\ panicAt = ""

\* A run calls one of RawEntry::as_parts (and as_entry on what it returns),
\* RawEntryParts::as_entry, MessageParser::parse and byte_array_to_be.
Init ==
  /\ InitCommon
  /\ \/ /\ caller = "as_parts" /\ pc = "as_parts"
        /\ raw \in RawInputs /\ rparts = Unset /\ message = <<>> /\ be_in = <<>>
     \/ /\ caller = "as_entry" /\ pc = "as_entry"
        /\ raw = <<>> /\ rparts \in {Some(p) : p \in PartsInputs}
        /\ message = <<>> /\ be_in = <<>>
     \/ /\ caller = "parse" /\ pc = "scan"
        /\ raw = <<>> /\ rparts = Unset /\ message \in MessageInputs /\ be_in = <<>>
     \/ /\ caller = "byte_array_to_be" /\ pc = "be"
        /\ raw = <<>> /\ rparts = Unset /\ message = <<>> /\ be_in \in BeInputs

(***************************************************************************)
(* Actions.                                                                *)
(***************************************************************************)
\* RawEntry::as_parts (lines 24-40)
AsParts ==
  /\ pc = "as_parts"
  /\ LET r == as_parts(raw)
     IN  /\ rparts' = r
         /\ pc' = IF r.tag = "Some" THEN "as_entry"
                  ELSE IF r.tag = "Panic" THEN "panic" ELSE "done"
         /\ panicAt' = IF r.tag = "Panic" THEN "RawEntry::as_parts" ELSE panicAt
  /\ UNCHANGED <<caller, raw, entry_type, timestamp, sender, entry, message, i,
                 buf, parts, iters, be_in, be_out>>

\* RawEntryParts::as_entry up to its call of MessageParser::parse (lines 66-80)
AsEntry ==
  /\ pc = "as_entry"
  /\ LET p == rparts.val
         s == resolve_sender(p.sender)
     IN  /\ entry_type' = p.header[5]
         /\ timestamp' = read_u32(Slice(p.header, 0, 4))
         /\ IF s.tag = "Panic"
            THEN /\ pc' = "panic" /\ panicAt' = "NamePart::parse"
                 /\ UNCHANGED <<sender, message>>
            ELSE /\ pc' = "scan" /\ sender' = s /\ message' = p.message
                 /\ UNCHANGED panicAt
  /\ UNCHANGED <<caller, raw, rparts, entry, i, buf, parts, iters, be_in, be_out>>

\* what the loop body finds at the cursor: the outcomes of parse_structure
\* at a 0x02 byte, None at any other byte (lines 325-327)
AtCursor ==
  IF message[i + 1] = STX THEN parse_structure(SliceFrom(message, i)) ELSE {None}

\* a loop iteration that decodes a sub-structure (lines 327-335)
ParseStructure ==
  /\ pc = "scan" /\ i < Len(message)
  /\ \E r \in AtCursor :
       /\ r.tag = "Some"
       /\ parts' = Append(Flush(parts, buf), r.val.part)
       /\ buf' = <<>>
       /\ i' = i + r.val.len + 1
  /\ iters' = iters + 1
  /\ UNCHANGED <<caller, pc, raw, rparts, entry_type, timestamp, sender, entry,
                 message, be_in, be_out, panicAt>>

\* a loop iteration that takes the byte as literal (lines 337-338)
ParseLiteral ==
  /\ pc = "scan" /\ i < Len(message)
  /\ \E r \in AtCursor : r.tag = "None"
  /\ buf' = Append(buf, message[i + 1])
  /\ i' = i + 1
  /\ iters' = iters + 1
  /\ UNCHANGED <<caller, pc, raw, rparts, entry_type, timestamp, sender, entry,
                 message, parts, be_in, be_out, panicAt>>

\* a loop iteration in which parse_structure panics
ParsePanic ==
  /\ pc = "scan" /\ i < Len(message)
  /\ \E r \in AtCursor : r.tag = "Panic"
  /\ pc' = "panic"
  /\ panicAt' = "MessageParser::parse"
  /\ UNCHANGED <<caller, raw, rparts, entry_type, timestamp, sender, entry,
                 message, i, buf, parts, iters, be_in, be_out>>

\* the end of the loop and the last flush (lines 324, 340-343)
ParseReturn ==
  /\ pc = "scan" /\ ~(i < Len(message))
  /\ parts' = Flush(parts, buf)
  /\ pc' = IF caller = "parse" THEN "done" ELSE "parsed"
  /\ UNCHANGED <<caller, raw, rparts, entry_type, timestamp, sender, entry,
                 message, i, buf, iters, be_in, be_out, panicAt>>

\* RawEntryParts::as_entry after MessageParser::parse returned (lines 80-86)
AsEntryReturn ==
  /\ pc = "parsed"
  /\ entry' = Some([entry_type |-> entry_type, timestamp |-> timestamp,
                    sender |-> sender, message |-> [parts |-> parts]])
  /\ pc' = "done"
  /\ UNCHANGED <<caller, raw, rparts, entry_type, timestamp, sender, message, i,
                 buf, parts, iters, be_in, be_out, panicAt>>

\* AutoTranslatePart::byte_array_to_be (lines 238-252)
ByteArrayToBe ==
  /\ pc = "be"
  /\ \E r \in byte_array_to_be(be_in) :
       /\ be_out' = r
       /\ pc' = IF r.tag = "Panic" THEN "panic" ELSE "done"
       /\ panicAt' = IF r.tag = "Panic" THEN "AutoTranslatePart::byte_array_to_be"
                     ELSE panicAt
  /\ UNCHANGED <<caller, raw, rparts, entry_type, timestamp, sender, entry,
                 message, i, buf, parts, iters, be_in>>

Next ==
  \/ AsParts
  \/ AsEntry
  \/ ParseStructure
  \/ ParseLiteral
  \/ ParsePanic
  \/ ParseReturn
  \/ AsEntryReturn
  \/ ByteArrayToBe

Spec == Init /\ [][Next]_vars

(***************************************************************************)
(* Properties.                                                             *)
(***************************************************************************)
NoByte(s, byte) == \A k \in 1..Len(s) : s[k] # byte

RECURSIVE PositionalValue(_)
\* sum over k of s[k] * 256^(Len(s) - k)
PositionalValue(s) ==
  IF s = <<>> THEN 0 ELSE PositionalValue(SubSeq(s, 1, Len(s) - 1)) * 256 + s[Len(s)]

\* MessageParser::parse, called on its own, has returned
ParseReturned == caller = "parse" /\ pc = "done"

\* C1: at a 0x02 byte that starts no decodable sub-structure the scan does
\* not abort: MessageParser::parse never ends in a panic, whatever the buffer.
C1_ScanNeverAborts == caller = "parse" => pc # "panic"

\* the message of length byte 2, category 5, id byte 0x7B, a terminator and "hi"
C2_Example == <<STX, AT_MARKER, 2, 5, 123, ETX, 104, 105>>

\* 0x02 0x2E [len] [category] [len-2 id bytes], a terminator byte, and
\* trailing text without 0x02, with at least one id byte
C2_Shaped(m) ==
  /\ Len(m) >= 3 /\ m[1] = STX /\ m[2] = AT_MARKER /\ m[3] >= 3
  /\ Len(m) >= m[3] + 3
  /\ NoByte(SubSeq(m, m[3] + 4, Len(m)), STX)

C2_Expected(m) ==
  <<from_parts(m[4], PositionalValue(SubSeq(m, 5, m[3] + 2)))>>
  \o (IF Len(m) > m[3] + 3
      THEN <<PlainTextPart_new(from_utf8_lossy(SubSeq(m, m[3] + 4, Len(m))))>>
      ELSE <<>>)

\* C2: an Auto-Translate sub-structure, a terminator and trailing text decode
\* to [AutoTranslate{category, big-endian id}, PlainText(trailing text)];
\* the example decodes to [AutoTranslate{5, 123}, PlainText("hi")].
C2_AutoTranslateThenText ==
  ParseReturned =>
    /\ message = C2_Example =>
         parts = <<from_parts(5, 123), PlainTextPart_new(<<104, 105>>)>>
    /\ C2_Shaped(message) => parts = C2_Expected(message)

\* C3 as stated: every buffer without a 0x02 byte, the empty one included,
\* decodes to exactly one PlainText segment, the lossy decoding of the buffer.
C3_OnePlainTextAlways ==
  (ParseReturned /\ NoByte(message, STX)) =>
    parts = <<PlainTextPart_new(from_utf8_lossy(message))>>

\* C3 amended: a non-empty buffer without a 0x02 byte decodes to exactly one
\* PlainText segment, the lossy decoding of the whole buffer; the empty
\* buffer decodes to no segment.
C3_OnePlainTextUnlessEmpty ==
  (ParseReturned /\ NoByte(message, STX)) =>
    parts = IF message = <<>> THEN <<>>
            ELSE <<PlainTextPart_new(from_utf8_lossy(message))>>

\* a buffer without 0x02 whose lossy decoding differs from its bytes has
\* been decoded to its one segment
C3_Witness ==
  /\ ParseReturned /\ NoByte(message, STX) /\ Len(message) >= 2
  /\ Len(parts) = 1 /\ parts[1].tag = "PlainText" /\ parts[1].text # message
  /\ \E k \in 1..Len(parts[1].text) : parts[1].text[k] = REPLACEMENT

\* a 0x3A byte at offset 9 or later
HasDelimiter(bytes) == \E k \in (SENDER_START + 1)..Len(bytes) : bytes[k] = COLON

\* the offset of the first 0x3A at offset 9 or later
FirstDelimiter(bytes) ==
  CHOOSE c \in SENDER_START..(Len(bytes) - 1) :
    /\ bytes[c + 1] = COLON
    /\ \A d \in SENDER_START..(c - 1) : bytes[d + 1] # COLON

\* RawEntry::as_parts has returned or panicked
FramingOver == caller = "as_parts" /\ pc # "as_parts"

\* C4: a record shorter than 9 bytes, or without a 0x3A byte at offset 9 or
\* later, frames to None, without a panic.
C4_UnframableIsNone ==
  (FramingOver /\ (Len(raw) < SENDER_START \/ ~HasDelimiter(raw))) => rparts = None

\* C5: with c the offset of the first 0x3A at offset 9 or later, as_parts
\* returns header = bytes [0,8), sender = bytes [9,c), message = bytes
\* [c+1,end); the sender holds no 0x3A and bytes[9..] is sender, 0x3A, message.
C5_SplitAtFirstDelimiter ==
  (FramingOver /\ HasDelimiter(raw)) =>
    LET c == FirstDelimiter(raw)
    IN  /\ rparts.tag = "Some"
        /\ rparts.val.header = SubSeq(raw, 1, 8)
        /\ rparts.val.sender = SubSeq(raw, 10, c)
        /\ rparts.val.message = SubSeq(raw, c + 2, Len(raw))
        /\ NoByte(rparts.val.sender, COLON)
        /\ SubSeq(raw, 10, Len(raw))
             = rparts.val.sender \o <<COLON>> \o rparts.val.message

\* a record with 0x3A at offset 8 and inside the message, and a sender, framed
C5_Witness ==
  /\ FramingOver /\ rparts.tag = "Some"
  /\ raw[9] = COLON /\ rparts.val.sender # <<>>
  /\ ~NoByte(rparts.val.message, COLON)

\* C6: as_entry never aborts on the sender: the sender is absent when
\* empty, the Name decoder's result when it decodes, the text twice when the
\* bytes are valid UTF-8, and absent otherwise; a sender that starts with
\* 0x02 0x27, is 22 bytes or longer and has unsatisfiable offsets makes the
\* Name decoder return absent.
C6_SenderNeverAborts ==
  (rparts.tag = "Some" /\ pc \notin {"as_parts", "as_entry"}) =>
    LET bytes == rparts.val.sender
    IN  /\ panicAt # "NamePart::parse"
        /\ NamePart_parse(bytes).tag # "Panic"
        /\ bytes = <<>> => sender = None
        /\ (bytes # <<>> /\ NamePart_parse(bytes).tag = "Some")
             => sender = NamePart_parse(bytes)
        /\ (bytes # <<>> /\ NamePart_parse(bytes).tag = "None")
             => sender = IF from_utf8(bytes).tag = "Ok"
                         THEN Some(from_names(from_utf8(bytes).val, from_utf8(bytes).val))
                         ELSE None

\* the header an Entry was assembled from
EntryHeader == IF caller = "as_parts" THEN SubSeq(raw, 1, 8) ELSE rparts.val.header

\* C7: the Entry's timestamp is b0 + 256*b1 + 65536*b2 + 16777216*b3 and its
\* entry_type is header byte 4, whatever header bytes 5..7, the sender and
\* the message are.
C7_TimestampAndType ==
  entry.tag = "Some" =>
    LET h == EntryHeader
    IN  /\ entry.val.timestamp = h[1] + 256 * h[2] + 65536 * h[3] + 16777216 * h[4]
        /\ entry.val.entry_type = h[5]

\* an Entry assembled from a framed record whose timestamp bytes differ
C7_Witness ==
  /\ caller = "as_parts" /\ entry.tag = "Some"
  /\ raw[1] = 1 /\ raw[2] = 0 /\ raw[3] = 127 /\ raw[4] = 127 /\ raw[5] = 1
  /\ raw[6] = 255

\* a 0x02 0x27 pair at offset k of m with no later 0x02 0x27 pair, or with no
\* 0x03 byte at or after the first later pair
C8_Case(m, k) ==
  /\ k + 2 <= Len(m) /\ m[k + 1] = STX /\ m[k + 2] = NAME_MARKER
  /\ LET later == {j \in (k + 2)..(Len(m) - 2) : m[j + 1] = STX /\ m[j + 2] = NAME_MARKER}
     IN  \/ later = {}
         \/ \A j \in MinOf(later)..(Len(m) - 1) : m[j + 1] # ETX

C9_BigEndianValue ==
  (caller = "byte_array_to_be" /\ pc # "be") =>
    /\ be_in = <<>> => be_out = None
    /\ (Len(be_in) >= 1 /\ Len(be_in) <= 8) => be_out = Some(PositionalValue(be_in))

\* [0x01, 0x00] has been decoded to 256
C9_Witness == be_in = <<1, 0>> /\ be_out = Some(256)

\* C10: the scan stops only at the end of the buffer: when it has stopped
\* it has returned, the cursor is at or past the end of the message after at
\* most len(message) iterations, and the literal run has been flushed as the
\* last PlainText segment.
C10_ScanReachesEnd ==
  (caller = "parse" /\ pc \in {"done", "panic"}) =>
    /\ pc = "done"
    /\ i >= Len(message)
    /\ iters <= Len(message)
    /\ buf # <<>> => parts[Len(parts)] = PlainTextPart_new(from_utf8_lossy(buf))

=============================================================================
